---- MODULE Spec2Model ----
(***************************************************************************)
(* A model of wbspert: the Sheet helpers, the PERT / WBS / table renderers *)
(* and the region merge (embedContents) of src/main.go, together with the  *)
(* later revision of the same file kept in src/unnamed/part_002.           *)
(*                                                                         *)
(* Text is modelled as a sequence of atoms.  An atom is a string: a single *)
(* character ("1", ".", ",", " ", "\n", "\t"), or a piece of fixed text    *)
(* that the program only ever copies as a whole (a marker comment, a       *)
(* legend, a colour name).  Go strings built by Sprintf are concatenations *)
(* of such sequences.                                                      *)
(***************************************************************************)
EXTENDS Integers, Sequences, FiniteSets, TLC

VARIABLES
    rev,      \* which revision of the source the behaviour runs
    file,     \* the bytes of the output file (-o), as atoms
    sheets,   \* the task sequence handed to the last renderer
    config,   \* the cfg of the last run
    out,      \* out.String() of the last renderer
    op,       \* the last operation performed
    embed,    \* the embedContents calls so far: tag, text, data read, replacements, data written
    call,     \* the last Sheet method call: receiver, argument, result
    pc,       \* where main is: "idle" between runs, else the renderer due next
    budget,   \* runs of the program still to come
    board,    \* the *projects.Board main holds: nil, or its columns of cards
    env       \* what the run meets: the records on its input, the project
              \* the API returns, the calls that fail

vars == <<rev, file, sheets, config, out, op, embed, call, pc, budget, board, env>>

-----------------------------------------------------------------------------
(* Bounds of the model *)

MaxIdLen == 3        \* longest task id tried by the Sheet-method specification
MaxParentsLen == 3   \* longest raw parent string tried
MaxLevel == 3        \* largest -l level tried
MaxTasks == 3        \* longest task list handed to the PERT renderer
MaxDocLen == 5       \* longest pre-existing document
MaxSeedLen == 0      \* longest pre-existing document that is merged into repeatedly
MaxRuns == 3         \* number of successive runs against one such document
MaxCards == 3        \* most cards in one column of a board
TagRuns == 2         \* number of successive runs merging under several tags

-----------------------------------------------------------------------------
(* Atoms *)

NL == "\n"
SP == " "
TAB == "\t"

\* Go's \s is [\t\n\f\r ]
Whitespace == {" ", "\t", "\n", "\f", "\r"}

Revisions == {"main.go", "part_002"}

-----------------------------------------------------------------------------
(* package strings *)

Min(S) == CHOOSE x \in S : \A y \in S : x <= y
Max(S) == CHOOSE x \in S : \A y \in S : x >= y

\* strings.Count(s, c) for a one-character c
Count(s, c) == Cardinality({i \in 1..Len(s) : s[i] = c})

\* strings.HasPrefix
HasPrefix(s, p) == Len(s) >= Len(p) /\ SubSeq(s, 1, Len(p)) = p

\* strings.Split(s, sep) for a one-character sep: always n+1 pieces
RECURSIVE Split(_, _)
Split(s, sep) ==
    LET hits == {i \in 1..Len(s) : s[i] = sep}
    IN  IF hits = {} THEN <<s>>
        ELSE LET i == Min(hits)
             IN  <<SubSeq(s, 1, i - 1)>> \o Split(SubSeq(s, i + 1, Len(s)), sep)

\* strings.Trim(s, cutset): drop leading and trailing characters of cutset
Trim(s, cutset) ==
    LET keep == {i \in 1..Len(s) : s[i] \notin cutset}
    IN  IF keep = {} THEN <<>> ELSE SubSeq(s, Min(keep), Max(keep))

\* strings.Repeat(c, n)
Repeat(c, n) == [i \in 1..n |-> c]

\* strings.ReplaceAll(s, c, "") for a one-character c
RemoveAll(s, c) == SelectSeq(s, LAMBDA x : x # c)

UpperAZ == <<"A","B","C","D","E","F","G","H","I","J","K","L","M",
             "N","O","P","Q","R","S","T","U","V","W","X","Y","Z">>
LowerAZ == <<"a","b","c","d","e","f","g","h","i","j","k","l","m",
             "n","o","p","q","r","s","t","u","v","w","x","y","z">>

LowerChar(c) ==
    IF \E i \in 1..26 : UpperAZ[i] = c
    THEN LowerAZ[CHOOSE i \in 1..26 : UpperAZ[i] = c]
    ELSE c

\* strings.ToLower
ToLower(s) == [i \in 1..Len(s) |-> LowerChar(s[i])]

\* bounded sequences over an alphabet
SeqsUpTo(A, n) == UNION {[1..k -> A] : k \in 0..n}

-----------------------------------------------------------------------------
(* Status vocabulary, spelled out as characters *)

sDone == <<"d","o","n","e">>
sComplete == <<"c","o","m","p","l","e","t","e">>
sInProgress == <<"i","n"," ","p","r","o","g","r","e","s","s">>
sUnderReview == <<"u","n","d","e","r"," ","r","e","v","i","e","w">>
sBlocked == <<"b","l","o","c","k","e","d">>
sStalled == <<"s","t","a","l","l","e","d">>
sWaiting == <<"w","a","i","t","i","n","g">>
sMilestone == <<"m","i","l","e","s","t","o","n","e">>

-----------------------------------------------------------------------------
(* type Sheet and its methods *)

Sheet(wbs, title, parents, duration, status) ==
    [WBS |-> wbs, Title |-> title, Parents |-> parents,
     Duration |-> duration, Status |-> status]

\* fmt verbs %0.1f and FormatFloat(_, 'f', 2, 32), for the whole-number
\* durations the model draws
Fmt1(d) == <<ToString(d), ".", "0">>
Fmt2(d) == <<ToString(d), ".", "0", "0">>

\* GetParents without the trim (mutant)
GetParentsNoTrim(s) == Split(s.Parents, ",")

GetParents(s) ==
    LET parents == Split(s.Parents, ",")
    IN  [i \in 1..Len(parents) |-> Trim(parents[i], {SP})]

\* main.go
GetStatusColor(s) ==
    LET st == ToLower(s.Status)
    IN  CASE st = sInProgress -> <<"#DarkSeaGreen">>
          [] st = sComplete \/ st = sDone -> <<"#Thistle">>
          [] st = sBlocked \/ st = sStalled -> <<"#Red">>
          [] st = sWaiting -> <<"#Pink">>
          [] st = sMilestone -> <<"#Orange">>
          [] OTHER -> <<>>

\* part_002: "under review" falls through to "in progress"
GetStatusColor2(s) ==
    LET st == ToLower(s.Status)
    IN  CASE st = sUnderReview \/ st = sInProgress -> <<"#DarkSeaGreen">>
          [] st = sComplete \/ st = sDone -> <<"#Thistle">>
          [] st = sBlocked \/ st = sStalled -> <<"#Red">>
          [] st = sWaiting -> <<"#Pink">>
          [] st = sMilestone -> <<"#Orange">>
          [] OTHER -> <<>>

StatusColor(r, s) == IF r = "main.go" THEN GetStatusColor(s) ELSE GetStatusColor2(s)

\* IsCompleted by equality only, as MarkdownRow compares (mutant)
IsCompletedExact(s) ==
    LET status == ToLower(s.Status)
    IN  status = sDone \/ status = sComplete

IsCompleted(s) ==
    LET status == ToLower(s.Status)
    IN  status = sDone \/ HasPrefix(status, sComplete)

GetLevel(s) == Count(s.WBS, ".") + 1

\* fmt.Sprintf(pertNode, s.WBS, title, s.WBS, color, s.Status, s.Duration)
GetPertNode(r, s) ==
    <<NL, "map \"">> \o s.WBS \o <<": ">> \o RemoveAll(s.Title, "\"")
        \o <<"\" as ">> \o s.WBS \o <<SP>> \o StatusColor(r, s) \o <<" {", NL>>
        \o <<"\tStatus => ">> \o s.Status \o <<NL>>
        \o <<"\tEarly => ES:   | EF:    ", NL>>
        \o <<"\tDuration => ">> \o Fmt1(s.Duration) \o <<NL>>
        \o <<"\tLate  => LS:   | LF:     ", NL>>
        \o <<"}", NL>>

\* main.go
GetPertLevel(s, lvl) ==
    IF GetLevel(s) >= lvl THEN GetPertNode("main.go", s) ELSE <<>>

\* part_002: a task with an empty status has no node
GetPertLevel2(s, lvl) ==
    IF s.Status = <<>> THEN <<>>
    ELSE IF GetLevel(s) >= lvl THEN GetPertNode("part_002", s) ELSE <<>>

PertLevel(r, s, lvl) ==
    IF r = "main.go" THEN GetPertLevel(s, lvl) ELSE GetPertLevel2(s, lvl)

\* GetWBSLevel with the collapse suffix put before the colour tag (mutant)
GetWBSLevelSuffixFirst(r, s, lvl) ==
    Repeat("*", IF GetLevel(s) = 1 THEN 2 ELSE GetLevel(s))
        \o (IF GetLevel(s) > lvl /\ lvl > 0 THEN <<"_">> ELSE <<>>)
        \o (IF Len(StatusColor(r, s)) > 0
            THEN <<"[">> \o StatusColor(r, s) \o <<"]">> ELSE <<>>)
        \o <<SP>> \o s.WBS \o <<":", SP>> \o s.Title

\* GetWBSLevel without the depth-1 special case (mutant)
GetWBSLevelFlat(r, s, lvl) ==
    Repeat("*", GetLevel(s))
        \o (IF Len(StatusColor(r, s)) > 0
            THEN <<"[">> \o StatusColor(r, s) \o <<"]">> ELSE <<>>)
        \o (IF GetLevel(s) > lvl /\ lvl > 0 THEN <<"_">> ELSE <<>>)
        \o <<SP>> \o s.WBS \o <<":", SP>> \o s.Title

GetWBSLevel(r, s, lvl) ==
    LET printlvl == IF GetLevel(s) = 1 THEN 2 ELSE GetLevel(s)
        color == StatusColor(r, s)
        str1 == Repeat("*", printlvl)
        str2 == IF Len(color) > 0 THEN str1 \o <<"[">> \o color \o <<"]">> ELSE str1
        str3 == IF GetLevel(s) > lvl /\ lvl > 0 THEN str2 \o <<"_">> ELSE str2
    IN  str3 \o <<SP>> \o s.WBS \o <<":", SP>> \o s.Title

GetWBS(r, s) == GetWBSLevel(r, s, 0)

-----------------------------------------------------------------------------
(* Inputs of the Sheet-method specification *)

sTitle == <<"T">>

\* task ids: digits and dots
Ids == SeqsUpTo({"1", "."}, MaxIdLen)

\* statuses as users type them
StatusPool ==
    { <<>>, <<"D","o","n","e">>, sComplete, <<"C","o","m","p","l","e","t","e","d">>,
      <<"I","n"," ","P","r","o","g","r","e","s","s">>,
      <<"U","n","d","e","r"," ","R","e","v","i","e","w">>,
      sBlocked, <<"t","o","d","o">> }

\* raw parent strings: a reference character, the separator, blanks
ParentStrs == SeqsUpTo({"A", ",", SP, TAB}, MaxParentsLen)

SheetInputs ==
    {Sheet(id, sTitle, <<>>, 4, st) : id \in Ids, st \in StatusPool}
        \cup {Sheet(<<"1", ".", "1">>, sTitle, p, 4, <<>>) : p \in ParentStrs}

NoFile == <<>>
\* the cfg defaults, but for Input, which names a file
NoConfig ==
    [Input |-> "in.csv", Output |-> "-", Level |-> 3, WBS |-> FALSE, PERT |-> FALSE,
     Table |-> FALSE, Embed |-> FALSE, Kanban |-> FALSE, ActiveOnly |-> FALSE,
     Filter |-> ""]
\* var board *projects.Board: nil until a project is fetched
NoBoard == [nil |-> TRUE, Columns |-> <<>>]
\* a run with nothing on its input and no call failing
NoFault == [open |-> FALSE, read |-> FALSE, write |-> FALSE]
NoEnv == [records |-> <<>>, project |-> NoBoard, fault |-> NoFault]
NoEmbed == <<>>
NoCall == [fn |-> "", s |-> Sheet(<<>>, <<>>, <<>>, 0, <<>>), lvl |-> 0, ret |-> <<>>]

(* A test driver for the Sheet methods: Init draws the receiver and the      *)
(* level argument, each action calls one method and records what it returns. *)
InitSheet ==
    /\ rev \in Revisions
    /\ file = NoFile
    /\ sheets = <<>>
    /\ config = NoConfig
    /\ out = <<>>
    /\ op = "init"
    /\ embed = NoEmbed
    /\ \E s \in SheetInputs, lvl \in 0..MaxLevel :
           call = [NoCall EXCEPT !.s = s, !.lvl = lvl]
    /\ pc = "idle"
    /\ budget = 0
    /\ board = NoBoard
    /\ env = NoEnv

Returns(fn, ret) ==
    /\ op = "init"
    /\ op' = fn
    /\ call' = [call EXCEPT !.fn = fn, !.ret = ret]
    /\ UNCHANGED <<rev, file, sheets, config, out, embed, pc, budget, board, env>>

CallGetParents == Returns("GetParents", GetParents(call.s))

CallGetLevel == Returns("GetLevel", GetLevel(call.s))

CallGetPertLevel == Returns("GetPertLevel", PertLevel(rev, call.s, call.lvl))

CallGetWBSLevel == Returns("GetWBSLevel", GetWBSLevel(rev, call.s, call.lvl))

CallGetWBS == Returns("GetWBS", GetWBS(rev, call.s))

NextSheet ==
    \/ CallGetParents
    \/ CallGetLevel
    \/ CallGetPertLevel
    \/ CallGetWBSLevel
    \/ CallGetWBS

SpecSheet == InitSheet /\ [][NextSheet]_vars

-----------------------------------------------------------------------------
(* Claims about the Sheet methods, checked under SpecSheet *)

\* the depth of a task id: dots plus one
Depth(id) == Cardinality({i \in 1..Len(id) : id[i] = "."}) + 1

\* position of the k-th comma of raw (0 before the first piece, Len+1 after
\* the last)
CommaAt(raw, k) ==
    LET commas == {i \in 1..Len(raw) : raw[i] = ","}
    IN  IF k = 0 THEN 0
        ELSE IF k > Cardinality(commas) THEN Len(raw) + 1
        ELSE CHOOSE p \in commas : Cardinality({q \in commas : q <= p}) = k

\* the i-th comma-delimited piece of raw
Piece(raw, i) == SubSeq(raw, CommaAt(raw, i - 1) + 1, CommaAt(raw, i) - 1)

\* elem is piece with a run of blanks removed at each end, and nothing else
TrimmedOf(piece, elem, blanks) ==
    /\ elem # <<>> => elem[1] \notin blanks /\ elem[Len(elem)] \notin blanks
    /\ \E a \in 0..Len(piece) : \E b \in 0..(Len(piece) - a) :
           /\ SubSeq(piece, a + 1, Len(piece) - b) = elem
           /\ \A j \in 1..a : piece[j] \in blanks
           /\ \A j \in (Len(piece) - b + 1)..Len(piece) : piece[j] \in blanks

\* ret is raw split on commas, in order, empty pieces and duplicates kept,
\* each piece trimmed of the characters in blanks
ParsedParents(raw, ret, blanks) ==
    /\ Len(ret) = Count(raw, ",") + 1
    /\ \A i \in 1..Len(ret) : TrimmedOf(Piece(raw, i), ret[i], blanks)
    /\ raw = <<>> => ret = << <<>> >>

\* C8: GetPertLevel(lvl) returns the node descriptor whenever the depth of
\* the task is >= lvl, also for a task with an empty status, and the empty
\* string whenever the depth is < lvl.
C8_GetPertLevel ==
    op = "GetPertLevel" =>
        IF Depth(call.s.WBS) >= call.lvl
        THEN call.ret = GetPertNode(rev, call.s) /\ call.ret # <<>>
        ELSE call.ret = <<>>

\* C9 as stated: GetParents returns the comma-separated elements in order,
\* each with all surrounding whitespace trimmed, empty elements and
\* duplicates kept, commas + 1 elements, "" parsing to [""].
C9_TrimsWhitespace ==
    op = "GetParents" => ParsedParents(call.s.Parents, call.ret, Whitespace)

\* C9 as amended: the same, with only surrounding space characters (U+0020)
\* trimmed from each element; tabs and other whitespace stay.
C9_TrimsSpaces ==
    op = "GetParents" => ParsedParents(call.s.Parents, call.ret, {SP})

\* C9 witness: a raw string with a comma and a blank, parsed to an empty and
\* a non-empty element
C9_Witness ==
    /\ op = "GetParents"
    /\ Count(call.s.Parents, ",") >= 1
    /\ Count(call.s.Parents, SP) >= 1
    /\ \E i, j \in 1..Len(call.ret) : call.ret[i] = <<>> /\ call.ret[j] # <<>>

\* number of "*" atoms a line starts with
LeadingStars(line) ==
    Min({i \in 1..(Len(line) + 1) : i > Len(line) \/ line[i] # "*"}) - 1

\* the statuses GetStatusColor gives a colour (lower-cased)
Recognised(r) ==
    {sInProgress, sComplete, sDone, sBlocked, sStalled, sWaiting, sMilestone}
        \cup (IF r = "main.go" THEN {} ELSE {sUnderReview})

\* C10: an outline line starts with Depth markers, 2 for a depth-1 task, so
\* always >= 2; GetWBS of a task with no recognised status is exactly the
\* markers, a space, "id: title".
C10_MarkerCount ==
    op \in {"GetWBSLevel", "GetWBS"} =>
        LET depth == Depth(call.s.WBS)
            n == LeadingStars(call.ret)
        IN  /\ n = (IF depth = 1 THEN 2 ELSE depth)
            /\ n >= 2
            /\ (op = "GetWBS" /\ ToLower(call.s.Status) \notin Recognised(rev))
                   => call.ret = [i \in 1..n |-> "*"] \o <<SP>> \o call.s.WBS
                                     \o <<":", SP>> \o call.s.Title

\* C10 witness: GetWBS of a depth-1 task with no status
C10_Witness ==
    /\ op = "GetWBS"
    /\ Depth(call.s.WBS) = 1
    /\ call.s.Status = <<>>
    /\ LeadingStars(call.ret) = 2

-----------------------------------------------------------------------------
(* Renderers *)

legend == <<NL, "legend right ... end legend", NL>>

footer == <<NL, "footer", NL, "As of %date()", NL, "end footer", NL>>

sentinel == <<"0", ".", "9", "9">>

\* inArray
inArray(fld, arr) == \E i \in 1..Len(arr) : fld = arr[i]

\* fmt.Sprintf("%s --> %s\n", p, sheet.WBS)
EdgeLine(p, id) == p \o <<" --> ">> \o id \o <<NL>>

\* the edges of one task with no Start for an empty reference (mutant)
RECURSIVE TaskEdgesRaw(_, _)
TaskEdgesRaw(parents, id) ==
    IF parents = <<>> THEN <<>>
    ELSE EdgeLine(Head(parents), id) \o TaskEdgesRaw(Tail(parents), id)

\* the edges of one task, in the order of its parent list
RECURSIVE TaskEdges(_, _)
TaskEdges(parents, id) ==
    IF parents = <<>> THEN <<>>
    ELSE EdgeLine(IF Head(parents) = <<>> THEN <<"Start">> ELSE Head(parents), id)
             \o TaskEdges(Tail(parents), id)

\* the condition of main.go kept in part_002, where GetPertLevel gives a
\* task without status no node (mutant)
PertIncludedAnyStatus(r, sheet, cfg) == GetLevel(sheet) >= cfg.Level

\* the condition under which PertChart records a task and its edges
\* (main.go:301; part_002:335 adds the non-empty status)
PertIncluded(r, sheet, cfg) ==
    /\ GetLevel(sheet) >= cfg.Level
    /\ r = "part_002" => ~(sheet.Status = <<>>)

\* the first loop of PertChart from task i on; acc holds out, tasks,
\* allParents and edges as the loop has left them
RECURSIVE PertLoop(_, _, _, _, _)
PertLoop(r, sh, cfg, i, acc) ==
    IF i > Len(sh) THEN acc
    ELSE LET sheet == sh[i]
         IN  IF HasPrefix(sheet.WBS, sentinel) THEN PertLoop(r, sh, cfg, i + 1, acc)
             ELSE IF cfg.ActiveOnly /\ IsCompleted(sheet)
                  THEN PertLoop(r, sh, cfg, i + 1, acc)
             ELSE LET acc1 == [acc EXCEPT !.out = @ \o PertLevel(r, sheet, cfg.Level)]
                  IN  IF PertIncluded(r, sheet, cfg)
                      THEN PertLoop(r, sh, cfg, i + 1,
                               [acc1 EXCEPT
                                   !.tasks = Append(@, sheet.WBS),
                                   !.allParents = @ \o GetParents(sheet),
                                   !.edges = @ \o TaskEdges(GetParents(sheet), sheet.WBS)])
                      ELSE PertLoop(r, sh, cfg, i + 1, acc1)

\* the second loop of PertChart: the Finish edges
RECURSIVE FinishEdges(_, _)
FinishEdges(tasks, allParents) ==
    IF tasks = <<>> THEN <<>>
    ELSE (IF ~inArray(Head(tasks), allParents)
          THEN Head(tasks) \o <<" --> ", "Finish", NL>> ELSE <<>>)
             \o FinishEdges(Tail(tasks), allParents)

\* PertChart with a Finish edge for every included task (mutant)
PertTextAllFinish(r, sh, cfg) ==
    LET acc == PertLoop(r, sh, cfg, 1,
                   [out |-> <<>>, tasks |-> <<>>, allParents |-> <<>>, edges |-> <<>>])
    IN  <<"@startuml PERT", NL, "left to right direction", NL>>
            \o <<"map Start {", NL, "}", NL, "map Finish {", NL, "}", NL>>
            \o acc.out \o acc.edges \o FinishEdges(acc.tasks, <<>>)
            \o footer \o legend \o <<"@enduml", NL>>

\* PertChart with the edges of a task written right after its node (mutant)
PertTextFinishFirst(r, sh, cfg) ==
    LET acc == PertLoop(r, sh, cfg, 1,
                   [out |-> <<>>, tasks |-> <<>>, allParents |-> <<>>, edges |-> <<>>])
    IN  <<"@startuml PERT", NL, "left to right direction", NL>>
            \o <<"map Start {", NL, "}", NL, "map Finish {", NL, "}", NL>>
            \o acc.out \o FinishEdges(acc.tasks, acc.allParents) \o acc.edges
            \o footer \o legend \o <<"@enduml", NL>>

\* out.String() of PertChart
PertText(r, sh, cfg) ==
    LET acc == PertLoop(r, sh, cfg, 1,
                   [out |-> <<>>, tasks |-> <<>>, allParents |-> <<>>, edges |-> <<>>])
    IN  <<"@startuml PERT", NL, "left to right direction", NL>>
            \o <<"map Start {", NL, "}", NL, "map Finish {", NL, "}", NL>>
            \o acc.out \o acc.edges \o FinishEdges(acc.tasks, acc.allParents)
            \o footer \o legend \o <<"@enduml", NL>>

\* the level WBS hands to GetWBSLevel: main.go passes config.Level,
\* part_002 passes the literal 99
WbsFloor(r, cfg) == IF r = "main.go" THEN cfg.Level ELSE 99

\* the task loop of WBS
RECURSIVE WBSLines(_, _, _)
WBSLines(r, sh, cfg) ==
    IF sh = <<>> THEN <<>>
    ELSE (IF cfg.ActiveOnly /\ IsCompleted(Head(sh)) THEN <<>>
          ELSE GetWBSLevel(r, Head(sh), WbsFloor(r, cfg)) \o <<NL>>)
             \o WBSLines(r, Tail(sh), cfg)

\* out.String() of WBS
WBSText(r, sh, cfg) ==
    <<"@startwbs", NL, "*", SP, "Project", NL>> \o WBSLines(r, sh, cfg)
        \o footer \o legend \o <<"@endwbs", NL>>

\* fmt.Sprintf(markDownRow, a, b, c, d, e)
markDownRow(a, b, c, d, e) ==
    <<"|", SP>> \o a \o <<SP, "|", SP>> \o b \o <<SP, "|", SP>> \o c
        \o <<SP, "|", SP>> \o d \o <<SP, "|", SP>> \o e \o <<SP, "|">>

MarkdownRow(s) ==
    LET title == IF ToLower(s.Status) = sDone \/ ToLower(s.Status) = sComplete
                 THEN <<"~~">> \o s.Title \o <<"~~">> ELSE s.Title
    IN  markDownRow(s.WBS, s.Status, title, s.Parents, Fmt2(s.Duration))

\* the header of four columns, without Status (mutant)
genMarkdownTableHeader4 ==
    <<"|", SP, "WBS", SP, "|", SP, "Task", SP, "|", SP, "Parents", SP, "|", SP,
      "Duration", SP, "|", NL>>
        \o <<"|", SP, "---", SP, "|", SP, "----", SP, "|", SP, "-------", SP, "|", SP,
             "--------", SP, "|">>

genMarkdownTableHeader ==
    markDownRow(<<"WBS">>, <<"Status">>, <<"Task">>, <<"Parents">>, <<"Duration">>)
        \o <<NL>>
        \o markDownRow(<<"---">>, <<"------">>, <<"----">>, <<"-------">>, <<"--------">>)

RECURSIVE TableRows(_, _)
TableRows(sh, cfg) ==
    IF sh = <<>> THEN <<>>
    ELSE (IF cfg.ActiveOnly /\ IsCompleted(Head(sh)) THEN <<>>
          ELSE MarkdownRow(Head(sh)) \o <<NL>>)
             \o TableRows(Tail(sh), cfg)

\* out.String() of WBSTable
TableText(sh, cfg) == genMarkdownTableHeader \o <<NL>> \o TableRows(sh, cfg)

\* the plantuml code fence Sprintf puts around out.String(); the atom "'''"
\* stands for the three backquotes of the fence
Fence(text) == <<"'''plantuml", NL>> \o text \o <<NL, "'''", NL>>

\* a projects.Card as Kanban reads it: its title, its labels, Fields["Type"]
\* and what card.IsCompleted() answers
Card(title, labels, type, completed) ==
    [Title |-> title, Labels |-> labels, Type |-> type, Completed |-> completed]

\* FilterCards: every column keeps the cards that carry the label or have
\* the type, in their order
FilterCards(columns, filter) ==
    [c \in 1..Len(columns) |->
        [columns[c] EXCEPT !.Cards =
            SelectSeq(columns[c].Cards,
                      LAMBDA card : inArray(filter, card.Labels) \/ card.Type = filter)]]

\* board.Columns as Kanban pivots them: main.go has no filter
KanbanColumns(r, columns, cfg) ==
    IF r # "main.go" /\ cfg.Filter # "" THEN FilterCards(columns, cfg.Filter)
    ELSE columns

\* determineRows looking at the first column only (mutant)
determineRowsFirst(cols) == IF cols = <<>> THEN 0 ELSE Len(cols[1].Cards)

determineRows(cols) == Max({Len(cols[c].Cards) : c \in 1..Len(cols)} \cup {0})

\* Kanban moving the cards below a suppressed card up a row (mutant)
KanbanRowsShift(cols, cfg) ==
    [row \in 1..determineRows(cols) |->
        [col \in 1..Len(cols) |->
            LET cards == SelectSeq(cols[col].Cards,
                                   LAMBDA card : ~(cfg.ActiveOnly /\ card.Completed))
            IN  IF row > Len(cards) THEN <<>>
                ELSE IF cards[row].Completed
                     THEN <<"~~">> \o cards[row].Title \o <<"~~">>
                     ELSE cards[row].Title]]

\* rows[colRow][colNum] after the loop over the columns and their cards
KanbanRows(cols, cfg) ==
    [row \in 1..determineRows(cols) |->
        [col \in 1..Len(cols) |->
            IF row > Len(cols[col].Cards) THEN <<>>
            ELSE LET card == cols[col].Cards[row]
                 IN  IF card.Completed
                     THEN IF cfg.ActiveOnly THEN <<>>
                          ELSE <<"~~">> \o card.Title \o <<"~~">>
                     ELSE card.Title]]

\* the concatenation of a sequence of texts
RECURSIVE Flatten(_)
Flatten(ss) == IF ss = <<>> THEN <<>> ELSE Head(ss) \o Flatten(Tail(ss))

\* one "| %s " per cell, then "|" and a newline
KanbanLine(cells) ==
    Flatten([c \in 1..Len(cells) |-> <<"|", SP>> \o cells[c] \o <<SP>>]) \o <<"|", NL>>

\* out.String() of Kanban
KanbanText(cols, cfg) ==
    KanbanLine([c \in 1..Len(cols) |-> cols[c].Name])
        \o KanbanLine([c \in 1..Len(cols) |-> <<"---">>])
        \o Flatten([row \in 1..determineRows(cols) |->
                       KanbanLine(KanbanRows(cols, cfg)[row])])

-----------------------------------------------------------------------------
(* Region merge *)

wbsTag == "wbs"
wbsTableTag == "wbsTable"
pertTag == "pert"
kanbanTag == "kanban"

\* the marker comments as embedContents writes them; each is one atom, and
\* the patterns' \s* inside a marker is not modelled
StartMarker(tag) ==
    CASE tag = wbsTag -> "<!-- wbs:embed:start -->"
      [] tag = wbsTableTag -> "<!-- wbsTable:embed:start -->"
      [] tag = pertTag -> "<!-- pert:embed:start -->"
      [] tag = kanbanTag -> "<!-- kanban:embed:start -->"

EndMarker(tag) ==
    CASE tag = wbsTag -> "<!-- wbs:embed:end -->"
      [] tag = wbsTableTag -> "<!-- wbsTable:embed:end -->"
      [] tag = pertTag -> "<!-- pert:embed:end -->"
      [] tag = kanbanTag -> "<!-- kanban:embed:end -->"

\* The pattern wbsEmbed (main.go:74) under Go's leftmost-first matching, in
\* four parts: a multi-line ^ and a greedy run of spaces; the start marker;
\* a lazy run of any characters, newlines too, up to an end marker; a lazy
\* run of whitespace up to a multi-line $.

\* multi-line ^: at the start of the text or right after a newline
AtLineStart(d, i) == i = 1 \/ d[i - 1] = NL

\* ^, spaces and start marker, begun at i: the index of the marker, or 0
MatchStart(d, i, tag) ==
    LET rest == {k \in i..Len(d) : d[k] # SP}
        j == IF rest = {} THEN 0 ELSE Min(rest)
    IN  IF AtLineStart(d, i) /\ j # 0 /\ d[j] = StartMarker(tag) THEN j ELSE 0

\* the lazy whitespace and $ after an end marker at e: the last index
\* matched, or 0.  The lazy run stops at the first end of line, so it never
\* takes a newline.
TailEnd(d, e) ==
    LET rest == {k \in (e + 1)..Len(d) : d[k] \notin (Whitespace \ {NL})}
        k == IF rest = {} THEN Len(d) + 1 ELSE Min(rest)
    IN  IF k > Len(d) \/ d[k] = NL THEN k - 1 ELSE 0

\* the rest of the pattern after a start marker at j: the lazy run takes the
\* first end marker whose tail matches; the last index matched, or 0
MatchEnd(d, j, tag) ==
    LET ends == {e \in (j + 1)..Len(d) : d[e] = EndMarker(tag) /\ TailEnd(d, e) # 0}
    IN  IF ends = {} THEN 0 ELSE TailEnd(d, Min(ends))

\* the leftmost match beginning at or after from: <<first, last>>, or <<0, 0>>
FindMatch(d, from, tag) ==
    LET starts == {i \in from..Len(d) :
                      /\ MatchStart(d, i, tag) # 0
                      /\ MatchEnd(d, MatchStart(d, i, tag), tag) # 0}
    IN  IF starts = {} THEN <<0, 0>>
        ELSE <<Min(starts), MatchEnd(d, MatchStart(d, Min(starts), tag), tag)>>

\* ReplaceAllFunc replacing the first match only (mutant)
ReplaceFirstFunc(d, from, tag, repl) ==
    LET m == FindMatch(d, from, tag)
    IN  IF m[1] = 0 THEN [data |-> SubSeq(d, from, Len(d)), replacements |-> 0]
        ELSE [data |-> SubSeq(d, from, m[1] - 1) \o repl \o SubSeq(d, m[2] + 1, Len(d)),
              replacements |-> 1]

\* re.ReplaceAllFunc(data, func) from position from on: the new bytes and
\* the number of calls of func
RECURSIVE ReplaceAllFunc(_, _, _, _)
ReplaceAllFunc(d, from, tag, repl) ==
    LET m == FindMatch(d, from, tag)
    IN  IF m[1] = 0 THEN [data |-> SubSeq(d, from, Len(d)), replacements |-> 0]
        ELSE LET rest == ReplaceAllFunc(d, m[2] + 1, tag, repl)
             IN  [data |-> SubSeq(d, from, m[1] - 1) \o repl \o rest.data,
                  replacements |-> rest.replacements + 1]

\* fmt.Sprintf("<!-- %s:embed:start -->\n\n%s\n<!-- %s:embed:end -->\n", tag, text, tag)
EmbedText(tag, text) ==
    <<StartMarker(tag), NL, NL>> \o text \o <<NL, EndMarker(tag), NL>>

\* embedContents appending after a single newline (mutant)
embedContentsOneNewline(data, text, tag) ==
    LET r == ReplaceAllFunc(data, 1, tag, EmbedText(tag, text))
    IN  IF r.replacements = 0 THEN data \o <<NL>> \o EmbedText(tag, text)
        ELSE r.data

\* the bytes embedContents writes back, given the bytes it read
embedContents(data, text, tag) ==
    LET r == ReplaceAllFunc(data, 1, tag, EmbedText(tag, text))
    IN  IF r.replacements = 0 THEN data \o <<NL, NL>> \o EmbedText(tag, text)
        ELSE r.data

-----------------------------------------------------------------------------
(* main and the renderer steps *)

Order == <<"PERT", "WBS", "Table", "Kanban">>

Wanted(cfg, step) ==
    CASE step = "PERT" -> cfg.PERT
      [] step = "WBS" -> cfg.WBS
      [] step = "Table" -> cfg.Table
      [] step = "Kanban" -> cfg.Kanban

\* the renderer main calls next, after the k-th of Order; "idle" when main
\* returns
NextPc(cfg, k) ==
    LET later == {i \in (k + 1)..Len(Order) : Wanted(cfg, Order[i])}
    IN  IF later = {} THEN "idle" ELSE Order[Min(later)]

\* main up to its first renderer: flags parsed, input read, output opened.
\* With -i - nothing is read; with -i gh the board and its cards are
\* fetched; else the file is opened (the error of os.Open is dropped) and
\* readFile ends the run with log.Fatal when the file is not open.
\* os.Create truncates the output file; OpenFile(O_RDWR|O_CREATE) does not.
Run(Cfgs, Inputs, Boards, Faults) ==
    /\ pc = "idle"
    /\ budget > 0
    /\ \E cfg \in Cfgs, sh \in Inputs, b \in Boards, f \in Faults :
           /\ config' = cfg
           /\ env' = [records |-> sh, fault |-> f,
                      project |-> IF cfg.Input = "gh" THEN b ELSE NoBoard]
           /\ IF cfg.Input \notin {"-", "gh"} /\ f.open
              THEN /\ sheets' = <<>>
                   /\ board' = NoBoard
                   /\ file' = file
                   /\ pc' = "idle"
                   /\ op' = "log.Fatal"
              ELSE /\ sheets' = IF cfg.Input = "-" THEN <<>> ELSE sh
                   /\ board' = IF cfg.Input = "gh" THEN b ELSE NoBoard
                   /\ file' = IF cfg.Output # "-" /\ ~cfg.Embed THEN <<>> ELSE file
                   /\ pc' = NextPc(cfg, 0)
                   /\ op' = "main"
    /\ budget' = budget - 1
    /\ out' = <<>>
    /\ UNCHANGED <<rev, embed, call>>

\* a run on a readable input file, no call failing
Main(Cfgs, Inputs) == Run(Cfgs, Inputs, {NoBoard}, {NoFault})

\* whether io.ReadAll of embedContents returns an error in this call
ReadOutcomes ==
    IF config.Embed /\ config.Output # "-" /\ env.fault.read THEN BOOLEAN ELSE {FALSE}

\* the tail of a renderer that truncates the output file before it reads it
\* (mutant)
EmitTruncateFirst(text, embedded, tag, failed) ==
    IF failed
    THEN /\ file' = <<>>
         /\ UNCHANGED embed
    ELSE IF config.Embed /\ config.Output # "-"
    THEN LET written == embedContents(file, embedded, tag)
         IN  /\ file' = IF env.fault.write THEN <<>> ELSE written
             /\ embed' = Append(embed,
                    [tag |-> tag, text |-> embedded, data |-> file,
                     replacements |-> ReplaceAllFunc(file, 1, tag, <<>>).replacements,
                     written |-> written])
    ELSE /\ file' = IF config.Output = "-" \/ env.fault.write THEN file
                    ELSE file \o text
         /\ UNCHANGED embed

\* the tail of every renderer: embed into the output file, or write to it.
\* When io.ReadAll fails, log.Fatal ends the run before Truncate and Write.
\* The results of file.Write and outfile.WriteString are dropped: when the
\* write fails nothing is written, after the Truncate of embedContents too.
Emit(text, embedded, tag, failed) ==
    IF failed
    THEN UNCHANGED <<file, embed>>
    ELSE IF config.Embed /\ config.Output # "-"
    THEN LET written == embedContents(file, embedded, tag)
         IN  /\ file' = IF env.fault.write THEN <<>> ELSE written
             /\ embed' = Append(embed,
                    [tag |-> tag, text |-> embedded, data |-> file,
                     replacements |-> ReplaceAllFunc(file, 1, tag, <<>>).replacements,
                     written |-> written])
    ELSE /\ file' = IF config.Output = "-" \/ env.fault.write THEN file
                    ELSE file \o text
         /\ UNCHANGED embed

PertChart ==
    /\ pc = "PERT"
    /\ out' = PertText(rev, sheets, config)
    /\ \E failed \in ReadOutcomes :
           /\ Emit(PertText(rev, sheets, config), Fence(PertText(rev, sheets, config)), pertTag, failed)
           /\ pc' = IF failed THEN "idle" ELSE NextPc(config, 1)
           /\ op' = IF failed THEN "log.Fatal" ELSE "PertChart"
    /\ UNCHANGED <<rev, sheets, config, call, budget, board, env>>

WBS ==
    /\ pc = "WBS"
    /\ out' = WBSText(rev, sheets, config)
    /\ \E failed \in ReadOutcomes :
           /\ Emit(WBSText(rev, sheets, config), Fence(WBSText(rev, sheets, config)), wbsTag, failed)
           /\ pc' = IF failed THEN "idle" ELSE NextPc(config, 2)
           /\ op' = IF failed THEN "log.Fatal" ELSE "WBS"
    /\ UNCHANGED <<rev, sheets, config, call, budget, board, env>>

WBSTable ==
    /\ pc = "Table"
    /\ out' = TableText(sheets, config)
    /\ \E failed \in ReadOutcomes :
           /\ Emit(TableText(sheets, config), TableText(sheets, config), wbsTableTag, failed)
           /\ pc' = IF failed THEN "idle" ELSE NextPc(config, 3)
           /\ op' = IF failed THEN "log.Fatal" ELSE "WBSTable"
    /\ UNCHANGED <<rev, sheets, config, call, budget, board, env>>

\* Kanban on the nil board of a run that fetched no project dereferences
\* nil and panics; else it filters the columns of the board in place
\* (part_002), pivots them and emits the table
Kanban ==
    /\ pc = "Kanban"
    /\ IF board.nil
       THEN /\ op' = "panic"
            /\ pc' = "idle"
            /\ out' = <<>>
            /\ UNCHANGED <<file, embed, board>>
       ELSE LET cols == KanbanColumns(rev, board.Columns, config)
            IN  /\ board' = [board EXCEPT !.Columns = cols]
                /\ out' = KanbanText(cols, config)
                /\ \E failed \in ReadOutcomes :
                       /\ Emit(KanbanText(cols, config), KanbanText(cols, config),
                               kanbanTag, failed)
                       /\ pc' = IF failed THEN "idle" ELSE NextPc(config, 4)
                       /\ op' = IF failed THEN "log.Fatal" ELSE "Kanban"
    /\ UNCHANGED <<rev, sheets, config, call, budget, env>>

-----------------------------------------------------------------------------
(* The PERT specification: one run of `wbspert -p` on a bounded task list *)

sTodo == <<"t", "o", "d", "o">>

\* A: a root task
tA == Sheet(<<"A">>, sTitle, <<>>, 1, sTodo)
\* B: depends on A, completed
tB == Sheet(<<"B">>, sTitle, <<"A">>, 2, <<"D", "o", "n", "e">>)
\* C: a blank after the comma, a reference X to no task, a trailing comma,
\* no status
tC == Sheet(<<"C">>, sTitle, <<"A", ",", SP, "X", ",">>, 1, <<>>)
\* A.1: depth 2, the same parent twice
tA1 == Sheet(<<"A", ".", "1">>, sTitle, <<"B", ",", "B">>, 1, sTodo)
\* a housekeeping entry under the reserved prefix
tS == Sheet(<<"0", ".", "9", "9", ".", "1">>, sTitle, <<"A">>, 1, sTodo)

TaskPool == {tA, tB, tC, tA1, tS}

TaskLists == SeqsUpTo(TaskPool, MaxTasks)

PertCfgs ==
    {[NoConfig EXCEPT !.PERT = TRUE, !.Level = l, !.ActiveOnly = a] :
        l \in 0..MaxLevel, a \in BOOLEAN}

InitPert ==
    /\ rev \in Revisions
    /\ file = NoFile
    /\ sheets = <<>>
    /\ config = NoConfig
    /\ out = <<>>
    /\ op = "init"
    /\ embed = NoEmbed
    /\ call = NoCall
    /\ pc = "idle"
    /\ budget = 1
    /\ board = NoBoard
    /\ env = NoEnv

MainPert == Main(PertCfgs, TaskLists)

NextPert ==
    \/ MainPert
    \/ PertChart

SpecPert == InitPert /\ [][NextPert]_vars

-----------------------------------------------------------------------------------------------------------------------------------------------------
(* The default specification: successive runs of `wbspert -e -o doc` with    *)
(* one or all of -p, -w, -t against a document that exists beforehand.       *)

\* what a document is made of before the first run: prose, newlines, blanks
\* and the markers of the wbs tag
DocAlphabet == {"a", NL, SP, StartMarker(wbsTag), EndMarker(wbsTag)}

Docs == SeqsUpTo(DocAlphabet, MaxDocLen)

\* the task lists of successive runs differ, so that the content merged does
EmbedInputs == {<<>>, <<tA>>}

FlagSets == {<<TRUE, FALSE, FALSE>>, <<FALSE, TRUE, FALSE>>,
             <<FALSE, FALSE, TRUE>>, <<TRUE, TRUE, TRUE>>}

EmbedCfgs ==
    {[NoConfig EXCEPT !.Output = "doc", !.Embed = TRUE,
                      !.PERT = f[1], !.WBS = f[2], !.Table = f[3]] : f \in FlagSets}

Init ==
    /\ rev = "main.go"
    /\ file \in Docs
    /\ sheets = <<>>
    /\ config = NoConfig
    /\ out = <<>>
    /\ op = "init"
    /\ embed = NoEmbed
    /\ call = NoCall
    /\ pc = "idle"
    /\ budget = IF Len(file) <= MaxSeedLen THEN MaxRuns ELSE 1
    /\ board = NoBoard
    /\ env = NoEnv

MainEmbed == Main(EmbedCfgs, EmbedInputs)

Next ==
    \/ MainEmbed
    \/ PertChart
    \/ WBS
    \/ WBSTable

Spec == Init /\ [][Next]_vars

-----------------------------------------------------------------------------
(* Claims about the dependency graph, checked under SpecPert *)

IsNodeLine(l) == l # <<>> /\ l[1] = "map \""
IsEdgeLine(l) == \E k \in 1..Len(l) : l[k] = " --> "
IsFinishEdge(l) == IsEdgeLine(l) /\ Len(l) >= 2 /\ l[Len(l)] = "Finish" /\ l[Len(l) - 1] = " --> "
IsParentEdge(l) == IsEdgeLine(l) /\ ~IsFinishEdge(l)

ArrowAt(l) == Min({k \in 1..Len(l) : l[k] = " --> "})
Source(l) == SubSeq(l, 1, ArrowAt(l) - 1)
Target(l) == SubSeq(l, ArrowAt(l) + 1, Len(l))
NodeId(l) == SubSeq(l, 2, Min({k \in 1..Len(l) : l[k] = ": "}) - 1)

\* the members of a set of positions of a sequence, in order
RECURSIVE InOrder(_, _)
InOrder(seq, idx) ==
    IF idx = {} THEN <<>> ELSE <<seq[Min(idx)]>> \o InOrder(seq, idx \ {Min(idx)})

MapSeq(seq, F(_)) == [k \in 1..Len(seq) |-> F(seq[k])]

\* the positions of the included tasks: not under the reserved prefix, not
\* suppressed by active-only, deep enough (and, in part_002, with a status)
IncludedIdx ==
    {i \in 1..Len(sheets) :
        /\ ~HasPrefix(sheets[i].WBS, sentinel)
        /\ ~(config.ActiveOnly /\ IsCompleted(sheets[i]))
        /\ Depth(sheets[i].WBS) >= config.Level
        /\ rev = "part_002" => sheets[i].Status # <<>>}

\* the source PertChart draws for a parsed parent reference
SourceOf(ref) == IF ref = <<>> THEN <<"Start">> ELSE ref

\* the rendered graph, taken apart once: its lines, the line numbers of the
\* node descriptors, the parent-to-child edges, the Finish edges, the footer
\* and the legend; the included tasks and their parsed parent lists
Graph ==
    LET L == Split(out, NL)
        inc == IncludedIdx
    IN  [lines |-> L,
         nodes |-> {n \in 1..Len(L) : IsNodeLine(L[n])},
         edges |-> {n \in 1..Len(L) : IsParentEdge(L[n])},
         finish |-> {n \in 1..Len(L) : IsFinishEdge(L[n])},
         footer |-> {n \in 1..Len(L) : L[n] = <<"footer">>},
         legend |-> {n \in 1..Len(L) : L[n] = <<"legend right ... end legend">>},
         inc |-> inc,
         parents |-> [i \in inc |-> GetParents(sheets[i])]]

\* id is a parsed parent reference of some included task
IsReferenced(g, id) ==
    \E j \in g.inc : \E k \in 1..Len(g.parents[j]) : g.parents[j][k] = id

\* C5: an included task has an edge id --> Finish iff its id is not among
\* the parsed parent references of any included task, and nothing else has
\* one; A(parents "") and B(parents "A") at level 1 give exactly the edges
\* Start --> A, A --> B, B --> Finish.
C5_FinishEdges ==
    op = "PertChart" =>
        LET g == Graph
        IN  /\ \A i \in g.inc :
                   (\E n \in g.finish : Source(g.lines[n]) = sheets[i].WBS)
                       <=> ~IsReferenced(g, sheets[i].WBS)
            /\ \A n \in g.finish :
                   \E i \in g.inc : Source(g.lines[n]) = sheets[i].WBS
            /\ (sheets = <<tA, tB>> /\ config.Level = 1 /\ ~config.ActiveOnly)
                   => InOrder(g.lines, g.edges \cup g.finish)
                          = << <<"Start", " --> ", "A">>, <<"A", " --> ", "B">>,
                               <<"B", " --> ", "Finish">> >>

\* C5 witness: the example, rendered
C5_Witness ==
    /\ op = "PertChart"
    /\ sheets = <<tA, tB>> /\ config.Level = 1 /\ ~config.ActiveOnly
    /\ Cardinality(Graph.finish) = 1

\* the (task position, parent position) pairs that must give an edge
\* src --> dst
EdgePairs(g, src, dst) ==
    UNION {{<<i, k>> : k \in {k \in 1..Len(g.parents[i]) :
                                 SourceOf(g.parents[i][k]) = src}} :
              i \in {i \in g.inc : sheets[i].WBS = dst}}

\* C6: every element of the parsed parent list of every included task gives
\* exactly one edge into the task, from Start for the empty string and from
\* the reference otherwise, whether or not the reference names a task; no
\* edge has the empty string as its source.
C6_ParentEdges ==
    op = "PertChart" =>
        LET g == Graph
        IN  /\ \A n \in g.edges : Source(g.lines[n]) # <<>>
            /\ \A n \in g.edges :
                   Cardinality({m \in g.edges : g.lines[m] = g.lines[n]})
                       = Cardinality(EdgePairs(g, Source(g.lines[n]), Target(g.lines[n])))
            /\ \A i \in g.inc : \A k \in 1..Len(g.parents[i]) :
                   \E n \in g.edges :
                       /\ Source(g.lines[n]) = SourceOf(g.parents[i][k])
                       /\ Target(g.lines[n]) = sheets[i].WBS

\* C6 witness: a task with a Start edge, an edge from a reference to no
\* task, and an edge from an included task
C6_Witness ==
    /\ op = "PertChart"
    /\ LET g == Graph
       IN  \E i, j \in g.inc :
               /\ sheets[i] = tC
               /\ sheets[j] = tA
               /\ \A src \in {<<"Start">>, <<"X">>, <<"A">>} :
                      \E n \in g.edges :
                          Source(g.lines[n]) = src /\ Target(g.lines[n]) = <<"C">>

\* the ids of the included tasks in input order, each once per parent
\* reference
RECURSIVE EdgeTargets(_, _)
EdgeTargets(g, idx) ==
    IF idx = {} THEN <<>>
    ELSE [k \in 1..Len(g.parents[Min(idx)]) |-> sheets[Min(idx)].WBS]
             \o EdgeTargets(g, idx \ {Min(idx)})

\* the ids of the tasks at a set of positions
TaskIds(idx) == MapSeq(InOrder(sheets, idx), LAMBDA t : t.WBS)

NodeIds(g) == {NodeId(g.lines[n]) : n \in g.nodes}
EdgeTargetIds(g) == {Target(g.lines[n]) : n \in g.edges}
FinishSourceIds(g) == {Source(g.lines[n]) : n \in g.finish}

\* C22: a task has a node descriptor iff it is among the tasks that receive
\* edges: every id an edge from Start or from a parent reference runs into,
\* and every id a Finish edge leaves, has a node descriptor; every node
\* descriptor has an edge running into it, as the parsed parent list of its
\* task is never empty; and there is one node descriptor per included task.
C22_NodesAndEdges ==
    op = "PertChart" =>
        LET g == Graph
        IN  /\ EdgeTargetIds(g) \subseteq NodeIds(g)
            /\ FinishSourceIds(g) \subseteq NodeIds(g)
            /\ NodeIds(g) \subseteq EdgeTargetIds(g)
            /\ \A i \in 1..Len(sheets) : Len(GetParents(sheets[i])) >= 1
            /\ Cardinality(g.nodes) = Cardinality(g.inc)
            /\ NodeIds(g) = {sheets[i].WBS : i \in g.inc}

\* C22 witness: the newest revision at level 2 with a task of depth 1, a
\* task without status and a task of depth 2 with a status: one node, with
\* an edge into it and a Finish edge out of it
C22_Witness ==
    /\ op = "PertChart"
    /\ rev = "part_002"
    /\ config.Level = 2
    /\ \E i, j \in 1..Len(sheets) : sheets[i] = tC /\ sheets[j] = tA
    /\ NodeIds(Graph) = {<<"A", ".", "1">>}
    /\ EdgeTargetIds(Graph) = {<<"A", ".", "1">>}
    /\ FinishSourceIds(Graph) = {<<"A", ".", "1">>}

-----------------------------------------------------------------------------
(* Claims about the region merge, checked under Spec *)

\* the merges of embedContents so far, the latest last
Merges == 1..Len(embed)

HasMarker(d, tag) == Count(d, StartMarker(tag)) + Count(d, EndMarker(tag)) > 0

\* the tagged regions of d: a start marker, the nearest end marker after it,
\* and no marker of the tag in between
Regions(d, tag) ==
    {p \in (1..Len(d)) \X (1..Len(d)) :
        /\ p[1] < p[2]
        /\ d[p[1]] = StartMarker(tag)
        /\ d[p[2]] = EndMarker(tag)
        /\ ~HasMarker(SubSeq(d, p[1] + 1, p[2] - 1), tag)}

Holds(d, p, text) == SubSeq(d, p[1] + 1, p[2] - 1) = <<NL, NL>> \o text \o <<NL>>

OneRegionHolding(d, tag, text) ==
    /\ Cardinality(Regions(d, tag)) = 1
    /\ \A p \in Regions(d, tag) : Holds(d, p, text)

\* d has a marker pair the merge recognises: a start marker with only spaces
\* between it and the start of its line, and after it an end marker with
\* only white space between it and the end of a line
HasMatch(d, tag) ==
    \E i, j \in 1..Len(d) :
        /\ i < j
        /\ d[i] = StartMarker(tag)
        /\ d[j] = EndMarker(tag)
        /\ \E k \in 1..i : /\ k = 1 \/ d[k - 1] = NL
                           /\ \A m \in k..(i - 1) : d[m] = SP
        /\ \E k \in j..Len(d) : /\ k = Len(d) \/ d[k + 1] = NL
                                /\ \A m \in (j + 1)..k : d[m] \in Whitespace

\* every line of d is free of the tag's markers, or is one marker pair:
\* the start marker first, the end marker last, no other marker between
PairsOnOwnLines(d, tag) ==
    \A i \in 1..Len(Split(d, NL)) :
        LET l == Split(d, NL)[i]
        IN  \/ ~HasMarker(l, tag)
            \/ /\ Len(l) >= 2
               /\ l[1] = StartMarker(tag)
               /\ l[Len(l)] = EndMarker(tag)
               /\ ~HasMarker(SubSeq(l, 2, Len(l) - 1), tag)

\* C1: starting from a document with no region for tag t, merging X under t
\* and then Y under t leaves exactly one t region, holding Y, and merging Y
\* under t once more leaves the document byte-identical.
C1_Idempotent ==
    \A i \in Merges :
        (i + 2) \in Merges =>
            LET first == embed[i]
                second == embed[i + 1]
                third == embed[i + 2]
            IN  (/\ first.tag = second.tag
                 /\ second.tag = third.tag
                 /\ ~HasMarker(first.data, first.tag)
                 /\ second.data = first.written
                 /\ third.data = second.written
                 /\ third.text = second.text)
                => /\ OneRegionHolding(second.written, second.tag, second.text)
                   /\ third.written = second.written

\* C2: the document a merge writes holds exactly one region of the tag, with
\* the new content, also when the document read held several marker pairs
\* (here: each pair on a line of its own).
C2_ExactlyOneRegion ==
    embed # <<>> =>
        LET e == embed[Len(embed)]
        IN  PairsOnOwnLines(e.data, e.tag)
            => OneRegionHolding(e.written, e.tag, e.text)

\* C3: a merge into a document whose one marker pair stands on lines of its
\* own keeps every byte before the start marker and every byte after the end
\* marker, unchanged and in place, and puts nothing between them and the
\* region.
C3_SurroundingsKept ==
    embed # <<>> =>
        LET e == embed[Len(embed)]
            d == e.data
            w == e.written
        IN  \A i, j \in 1..Len(d) :
                (/\ i < j
                 /\ d[i] = StartMarker(e.tag)
                 /\ d[j] = EndMarker(e.tag)
                 /\ Count(d, StartMarker(e.tag)) = 1
                 /\ Count(d, EndMarker(e.tag)) = 1
                 /\ i = 1 \/ d[i - 1] = NL
                 /\ j = Len(d) \/ d[j + 1] = NL)
                => LET before == SubSeq(d, 1, i - 1)
                       after == SubSeq(d, j + 1, Len(d))
                   IN  /\ Len(w) >= Len(before) + Len(after) + 2
                       /\ SubSeq(w, 1, i - 1) = before
                       /\ w[i] = StartMarker(e.tag)
                       /\ w[Len(w) - Len(after)] = EndMarker(e.tag)
                       /\ SubSeq(w, Len(w) - Len(after) + 1, Len(w)) = after

\* C4: when the document read holds no marker pair the merge recognises, the
\* document written is the document read, then an empty line, then the
\* tagged block: nothing is replaced and everything read is a prefix of what
\* is written.
C4_Append ==
    embed # <<>> =>
        LET e == embed[Len(embed)]
        IN  ~HasMatch(e.data, e.tag)
            => /\ e.replacements = 0
               /\ e.written = e.data \o <<NL, NL>>
                                \o <<StartMarker(e.tag), NL, NL>> \o e.text
                                \o <<NL, EndMarker(e.tag), NL>>

\* a merge has appended to a document that holds prose and a start marker
\* of the tag, but no pair the merge recognises
C4_Witness ==
    /\ op \in {"PertChart", "WBS", "WBSTable"}
    /\ embed # <<>>
    /\ LET e == embed[Len(embed)]
       IN  /\ ~HasMatch(e.data, e.tag)
           /\ Count(e.data, StartMarker(e.tag)) > 0
           /\ Count(e.data, "a") > 0
           /\ file = e.written
           /\ Len(file) > Len(e.data)

-----------------------------------------------------------------------------
(* The outline specification: one run of `wbspert -w` or `wbspert -t` on a  *)
(* bounded task list *)

\* A.2: depth 2, a status GetStatusColor knows, in capitals
tD == Sheet(<<"A", ".", "2">>, sTitle, <<>>, 1, <<"C", "O", "M", "P", "L", "E", "T", "E">>)
\* A.1.1: depth 3, a status that only starts with "complete"
tE == Sheet(<<"A", ".", "1", ".", "1">>, sTitle, <<>>, 1,
            <<"C", "o", "m", "p", "l", "e", "t", "e", "d">>)
\* B.1: depth 2, in progress
tF == Sheet(<<"B", ".", "1">>, sTitle, <<"A">>, 1,
            <<"I", "n", " ", "p", "r", "o", "g", "r", "e", "s", "s">>)

WbsPool == {tA, tB, tA1, tD, tE, tF}

WbsLists == SeqsUpTo(WbsPool, MaxTasks)

WbsCfgs ==
    {[NoConfig EXCEPT !.WBS = w, !.Table = ~w, !.Level = l, !.ActiveOnly = a] :
        w \in BOOLEAN, l \in 0..MaxLevel, a \in BOOLEAN}

InitWbs ==
    /\ rev \in Revisions
    /\ file = NoFile
    /\ sheets = <<>>
    /\ config = NoConfig
    /\ out = <<>>
    /\ op = "init"
    /\ embed = NoEmbed
    /\ call = NoCall
    /\ pc = "idle"
    /\ budget = 1
    /\ board = NoBoard
    /\ env = NoEnv

MainWbs == Main(WbsCfgs, WbsLists)

NextWbs ==
    \/ MainWbs
    \/ WBS
    \/ WBSTable

SpecWbs == InitWbs /\ [][NextWbs]_vars

-----------------------------------------------------------------------------
(* Claims about the outline and the table, checked under SpecWbs *)

\* status, lower-cased, equals "done" or starts with "complete"
Completed(s) ==
    \/ ToLower(s.Status) = <<"d", "o", "n", "e">>
    \/ HasPrefix(ToLower(s.Status), <<"c", "o", "m", "p", "l", "e", "t", "e">>)

\* the tasks an outline or table shows
Shown == SelectSeq(sheets, LAMBDA s : ~(config.ActiveOnly /\ Completed(s)))

\* the lines of out, without the empty piece after the last newline
OutLines ==
    LET L == Split(out, NL)
    IN  IF L # <<>> /\ L[Len(L)] = <<>> THEN SubSeq(L, 1, Len(L) - 1) ELSE L

\* what follows the marker run of an outline line
AfterStars(line) == SubSeq(line, LeadingStars(line) + 1, Len(line))

HasColourTag(line) == AfterStars(line) # <<>> /\ AfterStars(line)[1] = "["

\* the position in AfterStars(line) right after the colour tag, or 1
AfterTag(line) ==
    LET a == AfterStars(line)
    IN  IF HasColourTag(line)
        THEN Min({i \in 1..Len(a) : a[i] = "]"}) + 1
        ELSE 1

\* the line carries the collapse suffix: a "_" right after the marker run
\* and the colour tag, if any
HasSuffix(line) ==
    LET a == AfterStars(line)
    IN  AfterTag(line) <= Len(a) /\ a[AfterTag(line)] = "_"

LineTask(line) ==
    LET blanks == {i \in 1..Len(line) : line[i] = SP}
    IN  IF blanks = {} THEN <<>> ELSE SubSeq(line, Min(blanks) + 1, Len(line))

\* the lines that close every outline
OutlineTail ==
    << <<>>, <<"footer">>, <<"As of %date()">>, <<"end footer">>, <<>>,
       <<"legend right ... end legend">>, <<"@endwbs">> >>

\* C20: the outline is the "@startwbs" header, the root line "* Project",
\* one line per task that is not excluded, in input order, then the footer,
\* the legend and "@endwbs"; a task is excluded exactly when active-only is
\* set and its status, lower-cased, is "done" or starts with "complete".
C20_OutlineLines ==
    op = "WBS" =>
        LET L == OutLines
            n == Len(Shown)
        IN  /\ Len(L) = 2 + n + Len(OutlineTail)
            /\ L[1] = <<"@startwbs">>
            /\ L[2] = <<"*", SP, "Project">>
            /\ \A k \in 1..n :
                   LineTask(L[2 + k]) = Shown[k].WBS \o <<":", SP>> \o Shown[k].Title
            /\ SubSeq(L, 3 + n, Len(L)) = OutlineTail
            /\ out[Len(out)] = NL

\* an active-only outline of three tasks whose second has a status that only
\* starts with "complete": it is left out and the other two keep their order
C20_Witness ==
    /\ op = "WBS"
    /\ config.ActiveOnly
    /\ Len(sheets) = 3
    /\ Len(Shown) = 2
    /\ Completed(sheets[2])
    /\ ToLower(sheets[2].Status) \notin
           {<<"d", "o", "n", "e">>, <<"c", "o", "m", "p", "l", "e", "t", "e">>}
    /\ sheets[1].WBS # sheets[3].WBS
    /\ Len(OutLines) = 2 + 2 + Len(OutlineTail)

-----------------------------------------------------------------------------
(* The board specification: one run of `wbspert -k`, on a fetched project   *)
(* (-i gh) or on a file *)

\* x: open, labelled bug
cX == Card(<<"x">>, <<"bug">>, "task", FALSE)
\* y: completed, of type bug
cY == Card(<<"y">>, <<>>, "bug", TRUE)
\* z: open, neither labelled bug nor of type bug
cZ == Card(<<"z">>, <<"ui">>, "task", FALSE)

CardPool == {cX, cY, cZ}

CardLists == SeqsUpTo(CardPool, MaxCards)

ColNames == <<<<"Todo">>, <<"Done">>>>

\* boards of no, one and two columns
Boards ==
    {[nil |-> FALSE, Columns |-> <<>>]}
        \cup {[nil |-> FALSE, Columns |-> <<[Name |-> ColNames[1], Cards |-> a]>>] :
                 a \in CardLists}
        \cup {[nil |-> FALSE,
               Columns |-> <<[Name |-> ColNames[1], Cards |-> a],
                             [Name |-> ColNames[2], Cards |-> b]>>] :
                 a \in CardLists, b \in CardLists}

BoardCfgs ==
    {[NoConfig EXCEPT !.Kanban = TRUE, !.Input = i, !.ActiveOnly = a, !.Filter = f] :
        i \in {"gh", "in.csv"}, a \in BOOLEAN, f \in {"", "bug"}}

InitBoard ==
    /\ rev \in Revisions
    /\ file = NoFile
    /\ sheets = <<>>
    /\ config = NoConfig
    /\ out = <<>>
    /\ op = "init"
    /\ embed = NoEmbed
    /\ call = NoCall
    /\ pc = "idle"
    /\ budget = 1
    /\ board = NoBoard
    /\ env = NoEnv

\* main.go has no -f flag
MainBoard ==
    /\ Run(BoardCfgs, {<<>>}, Boards, {NoFault})
    /\ rev = "main.go" => config'.Filter = ""

NextBoard ==
    \/ MainBoard
    \/ Kanban

SpecBoard == InitBoard /\ [][NextBoard]_vars

-----------------------------------------------------------------------------
(* Claims about the board, checked under SpecBoard *)

\* the card passes the label/field filter of the run; every card does when
\* no filter is asked for (main.go knows none)
Matches(card) ==
    \/ config.Filter = ""
    \/ \E i \in 1..Len(card.Labels) : card.Labels[i] = config.Filter
    \/ card.Type = config.Filter

\* the cards of column c of the fetched project that pass the filter
Kept(c) == SelectSeq(env.project.Columns[c].Cards, Matches)

NumCols == Len(env.project.Columns)

\* the largest card count of a column, after filtering
MaxCount ==
    IF NumCols = 0 THEN 0
    ELSE CHOOSE n \in {Len(Kept(c)) : c \in 1..NumCols} :
             \A c \in 1..NumCols : Len(Kept(c)) <= n

\* the cells of a table line: what stands between its "|", less the blank
\* on either side
Cells(line) ==
    LET P == Split(line, "|")
    IN  [c \in 1..(Len(P) - 2) |-> SubSeq(P[c + 1], 2, Len(P[c + 1]) - 1)]

\* the data rows of the board table: the lines after header and separator
DataRows == [r \in 1..(Len(OutLines) - 2) |-> Cells(OutLines[r + 2])]

\* C12: the board grid has exactly maxRows data rows, maxRows the largest
\* card count of a column after filtering, and one cell per column in each
\* row; a cell with no card at its position is the empty string.
C12_Grid ==
    op = "Kanban" =>
        LET D == DataRows
        IN  /\ Len(D) = MaxCount
            /\ \A r \in 1..Len(D) :
                   /\ Len(D[r]) = NumCols
                   /\ \A c \in 1..NumCols : r > Len(Kept(c)) => D[r][c] = <<>>

\* a board with columns of 3 and 1 cards rendered as a 3 x 2 grid whose
\* second-column cells in rows 2 and 3 are empty
C12_Witness ==
    /\ op = "Kanban"
    /\ NumCols = 2
    /\ Len(Kept(1)) = 3
    /\ Len(Kept(2)) = 1
    /\ Len(DataRows) = 3
    /\ DataRows[1][2] # <<>>
    /\ DataRows[2][2] = <<>>
    /\ DataRows[3][2] = <<>>

\* C13: with active-only suppression a completed card leaves its own cell
\* empty and shifts no other card: every card not suppressed stands in the
\* row that is its index in the card sequence of its column, and the number
\* of data rows still counts the completed cards; without suppression the
\* title of a completed card is wrapped in "~~".
C13_NoShift ==
    op = "Kanban" =>
        LET D == DataRows
        IN  /\ Len(D) = MaxCount
            /\ \A c \in 1..NumCols :
                   \A r \in 1..Len(Kept(c)) :
                       LET card == Kept(c)[r]
                       IN  D[r][c] =
                               IF ~card.Completed THEN card.Title
                               ELSE IF config.ActiveOnly THEN <<>>
                               ELSE <<"~~">> \o card.Title \o <<"~~">>

\* an active-only board whose first column holds a completed card above an
\* open one: the first cell is empty, the open card stays in row 2, and the
\* rows are as many as the cards
C13_Witness ==
    /\ op = "Kanban"
    /\ config.ActiveOnly
    /\ NumCols >= 1
    /\ Len(Kept(1)) = 2
    /\ Kept(1)[1].Completed
    /\ ~Kept(1)[2].Completed
    /\ Len(DataRows) >= 2
    /\ DataRows[1][1] = <<>>
    /\ DataRows[2][1] = Kept(1)[2].Title


\* C19: rendering never changes what it is given: after the board renderer
\* has run, with or without a filter, every column of the board holds the
\* card sequence the fetched project had, and after any renderer the task
\* sequence is the one that was read.
C19_InputsKept ==
    /\ op = "Kanban" => board = env.project
    /\ (op \in {"PertChart", "WBS", "WBSTable", "Kanban"} /\ config.Input # "-")
           => sheets = env.records

-----------------------------------------------------------------------------
(* Claims about the table, checked under SpecWbs *)

Struck(line) ==
    LET title == Cells(line)[3]
    IN  Len(title) >= 2 /\ title[1] = "~~" /\ title[Len(title)] = "~~"

\* an outline line carries the colour of completed tasks
CompletedColour(line) ==
    HasColourTag(line) /\ AfterStars(line)[2] = "#Thistle"

\* C23: completion is judged the same way everywhere: for every status, a
\* task is struck through in the table and has the completed colour in the
\* outline exactly when IsCompleted holds for it, that is, exactly when
\* active-only would suppress it.
C23_CompletionConsistent ==
    ~config.ActiveOnly =>
        /\ op = "WBSTable" =>
               \A k \in 1..Len(sheets) :
                   Struck(OutLines[2 + k]) <=> Completed(sheets[k])
        /\ op = "WBS" =>
               \A k \in 1..Len(sheets) :
                   CompletedColour(OutLines[2 + k]) <=> Completed(sheets[k])

-----------------------------------------------------------------------------
(* The input/output specification: one run of `wbspert` with -i - or -i     *)
(* in.csv, to standard output or to a file, where opening the input and     *)
(* writing the output may fail *)

Faults == [open : BOOLEAN, read : BOOLEAN, write : BOOLEAN]

IoCfgs ==
    {[NoConfig EXCEPT !.Input = i, !.Output = o, !.Embed = e,
                      !.PERT = f[1], !.WBS = f[2], !.Table = f[3]] :
        i \in {"-", "in.csv"}, o \in {"-", "doc"}, e \in BOOLEAN, f \in FlagSets}

\* the records on standard input or in the input file
IoInputs == {<<>>, <<tA>>, <<tA, tB>>}

InitIo ==
    /\ rev \in Revisions
    /\ file \in {<<>>, <<"a", NL>>}
    /\ sheets = <<>>
    /\ config = NoConfig
    /\ out = <<>>
    /\ op = "init"
    /\ embed = NoEmbed
    /\ call = NoCall
    /\ pc = "idle"
    /\ budget = 1
    /\ board = NoBoard
    /\ env = NoEnv

MainIo == Run(IoCfgs, IoInputs, {NoBoard}, Faults)

NextIo ==
    \/ MainIo
    \/ PertChart
    \/ WBS
    \/ WBSTable

SpecIo == InitIo /\ [][NextIo]_vars

-----------------------------------------------------------------------------
(* Claims about input and output, checked under SpecIo *)

Renderers == {"PertChart", "WBS", "WBSTable", "Kanban"}

\* main has returned: the process exits with status 0
ExitedZero == pc = "idle" /\ op \in Renderers \cup {"main"}

\* the run named an input file and opening it failed
OpenFailed == env.fault.open /\ config.Input \notin {"-", "gh"}

\* a renderer wrote its output and the write failed
WriteFailed == env.fault.write /\ op \in Renderers

\* C15: no run in which opening the input file fails, or a write of the
\* rendered output fails (the write after the truncation of the region
\* merge included), continues and exits with status 0.
C15_FailuresFatal == ~(ExitedZero /\ (OpenFailed \/ WriteFailed))

\* C16: with -i - the task sequence rendered is the sequence of records on
\* standard input, as it is for the records of a named input file.
C16_StdinRendered ==
    (op \in Renderers /\ ~env.fault.open) =>
        /\ sheets = env.records
        /\ op = "WBS" => out = WBSText(rev, env.records, config)
        /\ op = "WBSTable" => out = TableText(env.records, config)
        /\ op = "PertChart" => out = PertText(rev, env.records, config)


\* a renderer is about to merge its text into the output file
MergeStep == pc \in {"PERT", "WBS", "Table", "Kanban"} /\ config.Embed /\ config.Output # "-"

\* C21: when reading the output file fails during a region merge, the run
\* ends before the file is truncated or written, and the file holds what it
\* held before the merge; the file is truncated and rewritten only after
\* its whole content has been read and the new content computed from it.
C21_ReadFailureKeeps ==
    [][MergeStep =>
          /\ op' = "log.Fatal" => (file' = file /\ embed' = embed /\ pc' = "idle")
          /\ file' # file =>
                 /\ op' # "log.Fatal"
                 /\ Len(embed') = Len(embed) + 1
                 /\ embed'[Len(embed')].data = file
                 /\ embed'[Len(embed')].written
                        = embedContents(file, embed'[Len(embed')].text,
                                        embed'[Len(embed')].tag)
                 /\ file' \in {embed'[Len(embed')].written, <<>>}]_vars

\* the second merge of a run failed to read the file, which still holds
\* what the first merge wrote
C21_Witness ==
    /\ op = "log.Fatal"
    /\ pc = "idle"
    /\ ~OpenFailed
    /\ env.fault.read
    /\ config.Embed /\ config.Output # "-"
    /\ embed # <<>>
    /\ file # <<>>
    /\ file = embed[Len(embed)].written

-----------------------------------------------------------------------------
(* Further claims about the region merge, checked under Spec *)

\* the stretches of d the marker pattern of the tag can match: from the
\* start of a line, over spaces only, to a start marker; on to an end
\* marker; and over white space only to the end of a line
Spans(d, tag) ==
    LET starts == {i \in 1..Len(d) : d[i] = StartMarker(tag)}
        ends == {i \in 1..Len(d) : d[i] = EndMarker(tag)}
        Lead(b) == {i \in 1..b : /\ i = 1 \/ d[i - 1] = NL
                                 /\ \A m \in i..(b - 1) : d[m] = SP}
        Trail(e) == {j \in e..Len(d) : /\ j = Len(d) \/ d[j + 1] = NL
                                       /\ \A m \in (e + 1)..j : d[m] \in Whitespace}
    IN  UNION {UNION {Lead(b) \X Trail(e) : e \in {x \in ends : x > b}} : b \in starts}

\* w is d from position from on with exactly k matches replaced by block:
\* each time the leftmost stretch the pattern can match, and none left over
RECURSIVE Rewrites(_, _, _, _, _, _)
Rewrites(d, from, w, spans, block, k) ==
    LET later == {p \in spans : p[1] >= from}
    IN  IF k = 0 THEN later = {} /\ w = SubSeq(d, from, Len(d))
        ELSE /\ later # {}
             /\ \E p \in later :
                    /\ \A q \in later : p[1] <= q[1]
                    /\ LET pre == SubSeq(d, from, p[1] - 1)
                           n == Len(pre) + Len(block)
                       IN  /\ Len(w) >= n
                           /\ SubSeq(w, 1, n) = pre \o block
                           /\ Rewrites(d, p[2] + 1, SubSeq(w, n + 1, Len(w)),
                                       spans, block, k - 1)

TaggedBlock(tag, text) ==
    <<StartMarker(tag), NL, NL>> \o text \o <<NL, EndMarker(tag), NL>>

\* C17: when the document read holds k >= 1 matches of the tag's marker
\* pattern, the merge replaces each of the k with the same new tagged block
\* and appends nothing; it appends only when k = 0, so no merge both
\* replaces and appends.
C17_ReplaceEvery ==
    embed # <<>> =>
        LET e == embed[Len(embed)]
            block == TaggedBlock(e.tag, e.text)
            appended == e.written = e.data \o <<NL, NL>> \o block
        IN  /\ e.replacements = 0 <=> ~HasMatch(e.data, e.tag)
            /\ e.replacements = 0 <=> appended
            /\ e.replacements >= 1 =>
                   Rewrites(e.data, 1, e.written, Spans(e.data, e.tag), block,
                            e.replacements)

\* a merge that replaced two marker pairs and appended nothing
C17_Witness ==
    /\ op \in {"PertChart", "WBS", "WBSTable"}
    /\ embed # <<>>
    /\ LET e == embed[Len(embed)]
       IN  /\ e.replacements = 2
           /\ file = e.written
           /\ Count(file, StartMarker(e.tag)) = 2

-----------------------------------------------------------------------------
(* The tags specification: successive runs of `wbspert -e -o doc` with one  *)
(* of -p, -w, -t, -k or all of them, against one document *)

Tags == {wbsTag, wbsTableTag, pertTag, kanbanTag}

\* the document before the first run: empty, prose, a table region, or a
\* start marker of the outline that has no end marker
TagDocs ==
    {<<>>, <<"a", NL>>,
     <<StartMarker(wbsTableTag), EndMarker(wbsTableTag), NL>>,
     <<StartMarker(wbsTag), NL>>}

TagBoards == {[nil |-> FALSE, Columns |-> <<[Name |-> ColNames[1], Cards |-> <<cX, cY>>]>>]}

TagCfgs ==
    {[NoConfig EXCEPT !.Output = "doc", !.Embed = TRUE,
                      !.PERT = f[1], !.WBS = f[2], !.Table = f[3]] :
        f \in FlagSets \ {<<TRUE, TRUE, TRUE>>}}
      \cup {[NoConfig EXCEPT !.Output = "doc", !.Embed = TRUE, !.Input = "gh",
                             !.Kanban = TRUE, !.PERT = a, !.WBS = a, !.Table = a] :
               a \in BOOLEAN}

InitTags ==
    /\ rev = "main.go"
    /\ file \in TagDocs
    /\ sheets = <<>>
    /\ config = NoConfig
    /\ out = <<>>
    /\ op = "init"
    /\ embed = NoEmbed
    /\ call = NoCall
    /\ pc = "idle"
    /\ budget = TagRuns
    /\ board = NoBoard
    /\ env = NoEnv

MainTags == Run(TagCfgs, EmbedInputs, TagBoards, {NoFault})

NextTags ==
    \/ MainTags
    \/ PertChart
    \/ WBS
    \/ WBSTable
    \/ Kanban

SpecTags == InitTags /\ [][NextTags]_vars

-----------------------------------------------------------------------------
(* Claims about merges under several tags, checked under SpecTags *)

\* the regions of the tag in d, each from start marker through end marker
RegionTexts(d, tag) == {SubSeq(d, p[1], p[2]) : p \in Regions(d, tag)}

\* the last merge under the tag, or 0
LastMerge(tag) ==
    LET M == {i \in Merges : embed[i].tag = tag}
    IN  IF M = {} THEN 0 ELSE CHOOSE i \in M : \A j \in M : j <= i

\* a merge leaves the regions of every other tag as they were, and after it
\* every tag merged so far has a region holding what was last merged under it
TagsApart ==
    embed # <<>> =>
        LET e == embed[Len(embed)]
        IN  /\ \A t \in Tags \ {e.tag} :
                   RegionTexts(e.written, t) = RegionTexts(e.data, t)
            /\ \A t \in Tags :
                   LastMerge(t) # 0 =>
                       \E p \in Regions(e.written, t) :
                           Holds(e.written, p, embed[LastMerge(t)].text)

\* every start marker of d lies in a stretch the pattern of its tag matches
NoStrayStart(d) ==
    \A t \in Tags :
        \A i \in 1..Len(d) :
            d[i] = StartMarker(t) => \E p \in Spans(d, t) : p[1] <= i /\ i <= p[2]

\* C18 as stated: for any sequence of merges under the tags wbs, wbsTable,
\* pert and kanban into one document, a merge under one tag leaves the
\* marker pair and content of every other tag's region unchanged, and each
\* merged tag has a region holding the content of its last merge.
C18_TagsApart == TagsApart

\* where the merges under different tags do keep apart: in a document that
\* held no start marker without its end marker before the first merge
C18_TagsApartPaired == (embed # <<>> /\ NoStrayStart(embed[1].data)) => TagsApart

====
